---- MODULE Spec2Model ----
(***************************************************************************)
(* Model of the p-val statistical core (src/src/utils/stats.ts) and of the *)
(* simulation worker (src/unnamed/part_000).                               *)
(*                                                                         *)
(* Numbers.  JavaScript numbers are IEEE-754 doubles.  The model keeps the *)
(* IEEE special values and the order of every operation, and computes the  *)
(* finite values exactly (no rounding):                                    *)
(*   - a number is an extended rational <<n, d>>, d >= 0, in lowest terms; *)
(*     <<1,0>> is +Infinity, <<-1,0>> is -Infinity and <<0,0>> is NaN;     *)
(*   - the result of Math.sqrt and of a division by it is a surd           *)
(*     [sg, sq], the number sg * sqrt(sq);                                 *)
(*   - the interior value of regularizedIncompleteBeta is bt*cf, a product *)
(*     of transcendental terms; it is kept as a symbol that records the    *)
(*     arguments bt and betacf were evaluated on, and the values built on  *)
(*     it are affine forms c + m*(bt*cf).                                  *)
(* The sign of zero is not modelled.                                       *)
(***************************************************************************)
EXTENDS Integers, Sequences, FiniteSets, TLC

VARIABLES
  \* ---- the evaluation of one function of stats.ts on one input
  call,      \* <<function name, arguments>>
  ret,       \* the values returned so far by the calls applied to `call`
  \* ---- betacf's loop
  bcf,       \* [pc, x, a, b, m, em, az, iters, hit]
  \* ---- the worker context
  inbox,     \* request messages delivered to the context, not yet handled
  outbox,    \* response messages posted by the context
  sent,      \* number of requests the host has posted
  handled,   \* the requests onmessage was invoked for, in order
  answered,  \* answered[k]: the number of the request outbox[k] was posted for
  wpc,       \* position inside ctx.onmessage
  req,       \* evt.data of the running handler
  i,         \* the loop counter
  trialA,    \* the trial's array a (group A)
  trialB,    \* the trial's array b (group B)
  pValues,   \* the handler's pValues array
  draws,     \* Math.random() calls made by the running handler
  drawLog    \* one entry <<trial, group>> per randomNormal call of the handler

statVars == <<call, ret>>
bcfVars == <<bcf>>
workerVars == <<inbox, outbox, sent, handled, answered, wpc, req, i, trialA,
                trialB, pValues, draws, drawLog>>
vars == <<call, ret, bcf, inbox, outbox, sent, handled, answered, wpc, req,
          i, trialA, trialB, pValues, draws, drawLog>>

----------------------------------------------------------------------------
(* Bounds of the model. *)

MaxShape2 == 4
MaxT2 == 4
MaxDf == 4
MaxLen == 3
MaxMsgs == 1
MaxTrials == 2

----------------------------------------------------------------------------
(* IEEE-754 arithmetic on extended rationals. *)

Abs(k) == IF k < 0 THEN -k ELSE k

Sgn(k) == IF k < 0 THEN -1 ELSE IF k > 0 THEN 1 ELSE 0

RECURSIVE GCD(_, _)
GCD(m, n) == IF n = 0 THEN m ELSE GCD(n, m % n)

RNorm(n, d) ==
  IF d = 0 THEN <<Sgn(n), 0>>
  ELSE LET g == GCD(Abs(n), Abs(d))
       IN  <<(Sgn(d) * n) \div g, Abs(d) \div g>>

I(k) == <<k, 1>>
Zero == <<0, 1>>
One == <<1, 1>>
Two == <<2, 1>>
Half == <<1, 2>>
NaN == <<0, 0>>
PInf == <<1, 0>>

IsNaN(x) == x = NaN
IsInf(x) == x[2] = 0 /\ x[1] # 0
IsFinite(x) == x[2] # 0

RNeg(x) == <<-x[1], x[2]>>

RAdd(x, y) ==
  IF IsNaN(x) \/ IsNaN(y) THEN NaN
  ELSE IF IsInf(x) /\ IsInf(y) THEN (IF x = y THEN x ELSE NaN)
  ELSE IF IsInf(x) THEN x
  ELSE IF IsInf(y) THEN y
  ELSE RNorm(x[1] * y[2] + y[1] * x[2], x[2] * y[2])

RSub(x, y) == RAdd(x, RNeg(y))

RMul(x, y) == RNorm(x[1] * y[1], x[2] * y[2])

RRecip(x) ==
  IF IsNaN(x) THEN NaN
  ELSE IF IsInf(x) THEN Zero
  ELSE IF x[1] = 0 THEN PInf
  ELSE <<Sgn(x[1]) * x[2], Abs(x[1])>>

RDiv(x, y) ==
  IF IsFinite(y) /\ y[1] = 0 THEN <<Sgn(x[1]), 0>>
  ELSE RMul(x, RRecip(y))

RSgn(x) == Sgn(x[1])

(* x < y, x <= y, x >= y: false as soon as one side is NaN. *)
RLt(x, y) ==
  /\ ~IsNaN(x)
  /\ ~IsNaN(y)
  /\ x # y
  /\ RSgn(RSub(x, y)) < 0

RLe(x, y) == ~IsNaN(x) /\ ~IsNaN(y) /\ (x = y \/ RLt(x, y))

RGe(x, y) == RLe(y, x)

(* Math.sqrt, and the division of a number by a square root. *)
SNaN == [sg |-> 0, sq |-> NaN]

Sqrt(q) ==
  IF IsNaN(q) \/ RSgn(q) < 0 THEN SNaN
  ELSE [sg |-> RSgn(q), sq |-> q]

SDiv(r, s) ==
  LET sq == RDiv(RMul(r, r), s.sq)
  IN  IF IsNaN(r) \/ IsNaN(s.sq) \/ IsNaN(sq) THEN SNaN
      ELSE [sg |-> IF sq = Zero THEN 0 ELSE RSgn(r), sq |-> sq]

SNeg(t) == [sg |-> -t.sg, sq |-> t.sq]
SSquare(t) == t.sq
SGe0(t) == ~IsNaN(t.sq) /\ t.sg >= 0
SIsNaN(t) == IsNaN(t.sq)
SOfInt2(k) == [sg |-> Sgn(k), sq |-> RNorm(k * k, 4)]

(* Affine forms c + m*(bt*cf) over the symbol s of one bt*cf product. *)
NoSym == <<>>
AConst(r) == [c |-> r, m |-> Zero, s |-> NoSym]

ANorm(v) ==
  IF IsNaN(v.c) \/ IsNaN(v.m) THEN AConst(NaN)
  ELSE IF v.m = Zero THEN AConst(v.c)
  ELSE v

AScale(r, v) ==
  ANorm([c |-> RMul(r, v.c), m |-> RMul(r, v.m), s |-> v.s])

AOneMinus(v) ==
  ANorm([c |-> RSub(One, v.c), m |-> RNeg(v.m), s |-> v.s])

AAdd(v, w) ==
  IF v.s = NoSym THEN ANorm([c |-> RAdd(v.c, w.c), m |-> w.m, s |-> w.s])
  ELSE IF w.s = NoSym \/ w.s = v.s
       THEN ANorm([c |-> RAdd(v.c, w.c), m |-> RAdd(v.m, w.m), s |-> v.s])
  ELSE AConst(NaN)

----------------------------------------------------------------------------
(* simple-statistics, as stats.ts uses it.  mean is the sum over the       *)
(* length; variance is the population variance, the sum of the squared     *)
(* deviations from the mean over the length (the n-1 form is the library's *)
(* sampleVariance, which stats.ts does not call).  Both throw on an empty  *)
(* array; `threw` tells it.                                                *)

RECURSIVE SumSeq(_)
SumSeq(xs) == IF xs = <<>> THEN Zero ELSE RAdd(xs[1], SumSeq(Tail(xs)))

RECURSIVE SumSqDev(_, _)
SumSqDev(xs, mu) ==
  IF xs = <<>> THEN Zero
  ELSE LET dev == RSub(xs[1], mu)
       IN  RAdd(RMul(dev, dev), SumSqDev(Tail(xs), mu))

ss_mean(xs) ==
  IF Len(xs) = 0 THEN [threw |-> TRUE, v |-> NaN]
  ELSE [threw |-> FALSE, v |-> RDiv(SumSeq(xs), I(Len(xs)))]

ss_variance(xs) ==
  IF Len(xs) = 0 THEN [threw |-> TRUE, v |-> NaN]
  ELSE [threw |-> FALSE,
        v |-> RDiv(SumSqDev(xs, ss_mean(xs).v), I(Len(xs)))]

----------------------------------------------------------------------------
(* logGamma: the calls one evaluation makes (the reflection branch calls   *)
(* logGamma(1 - z) once more); its value is part of the symbol bt.         *)

RECURSIVE logGammaCalls(_)
logGammaCalls(z) ==
  IF RLt(z, Half)
  THEN <<<<"logGamma", <<z>>>>>> \o logGammaCalls(RSub(One, z))
  ELSE <<<<"logGamma", <<z>>>>>>

(* regularizedIncompleteBeta: [v: the value returned, calls: the calls to  *)
(* logGamma and betacf it made, in order].                                 *)

(* lines 70-73 and 76-78: bt, then cf = betacf(cfx, a, b), then result *)
ibetaResult(x, a, b, symm, cfx) ==
  [v |-> IF IsNaN(x) \/ IsNaN(a) \/ IsNaN(b) THEN AConst(NaN)
         ELSE IF symm
              THEN ANorm([c |-> Zero, m |-> RDiv(One, a),
                          s |-> <<x, a, b, cfx, a, b>>])
              ELSE ANorm([c |-> One, m |-> RNeg(RDiv(One, b)),
                          s |-> <<x, a, b, cfx, a, b>>]),
   calls |-> logGammaCalls(RAdd(a, b)) \o logGammaCalls(a)
             \o logGammaCalls(b) \o <<<<"betacf", <<cfx, a, b>>>>>>]

(* line 76: the first argument of betacf *)
ibetaCf(x, a, b, symm) ==
  ibetaResult(x, a, b, symm, IF symm THEN x ELSE RSub(One, x))

(* line 75 *)
ibetaInterior(x, a, b) ==
  ibetaCf(x, a, b, RLt(x, RDiv(RAdd(a, One), RAdd(RAdd(a, b), Two))))

(* Variant: the lower boundary tested with x < 0. *)
regularizedIncompleteBeta_lt(x, a, b) ==
  IF RLt(x, Zero) THEN [v |-> AConst(Zero), calls |-> <<>>]
  ELSE IF RGe(x, One) THEN [v |-> AConst(One), calls |-> <<>>]
  ELSE ibetaInterior(x, a, b)

(* Variant: the upper boundary tested with x > 1. *)
regularizedIncompleteBeta_gt(x, a, b) ==
  IF RLe(x, Zero) THEN [v |-> AConst(Zero), calls |-> <<>>]
  ELSE IF RLt(One, x) THEN [v |-> AConst(One), calls |-> <<>>]
  ELSE ibetaInterior(x, a, b)

regularizedIncompleteBeta(x, a, b) ==
  IF RLe(x, Zero) THEN [v |-> AConst(Zero), calls |-> <<>>]
  ELSE IF RGe(x, One) THEN [v |-> AConst(One), calls |-> <<>>]
  ELSE ibetaInterior(x, a, b)

(* Variant: the upper tail returned as 1 - ib. *)
studentTCdf_ret_full(t, ib) ==
  IF SGe0(t) THEN AOneMinus(ib) ELSE AScale(Half, ib)

(* lines 61-62 *)
studentTCdf_ret(t, ib) ==
  IF SGe0(t) THEN AOneMinus(AScale(Half, ib)) ELSE AScale(Half, ib)

studentTCdf(t, v) ==
  studentTCdf_ret(
    t,
    regularizedIncompleteBeta(RDiv(v, RAdd(v, SSquare(t))), RDiv(v, Two),
                              Half).v)

(* twoSampleP, in the order of the code.  Each step is an operator on the  *)
(* locals computed before it; twoSampleLocals gives every local of one     *)
(* call, twoSampleP the record the function returns.                       *)

(* Variant: p = 2 * (1 - cdf) whatever the sign of t. *)
twoSampleP_p_onesided(t, cdf) == AScale(Two, AOneMinus(cdf))

(* line 42 *)
twoSampleP_p(t, cdf) ==
  AScale(Two, AOneMinus(IF SGe0(t) THEN cdf ELSE AOneMinus(cdf)))

(* lines 41-44 *)
twoSampleP_cdf(var1, var2, df, pooled, se, t) ==
  [threw |-> FALSE, var1 |-> var1, var2 |-> var2, pooled |-> pooled,
   se |-> se, t |-> t, df |-> df,
   p |-> twoSampleP_p(t, studentTCdf(t, I(df)))]

(* line 38 *)
twoSampleP_t(mean1, mean2, var1, var2, df, pooled, se) ==
  twoSampleP_cdf(var1, var2, df, pooled, se, SDiv(RSub(mean1, mean2), se))

(* line 36 *)
twoSampleP_se(n1, n2, mean1, mean2, var1, var2, df, pooled) ==
  twoSampleP_t(mean1, mean2, var1, var2, df, pooled,
               Sqrt(RMul(pooled, RAdd(RDiv(One, I(n1)), RDiv(One, I(n2))))))

(* lines 34-35 *)
twoSampleP_pooled(n1, n2, mean1, mean2, var1, var2) ==
  twoSampleP_se(n1, n2, mean1, mean2, var1, var2, n1 + n2 - 2,
                RDiv(RAdd(RMul(I(n1 - 1), var1), RMul(I(n2 - 1), var2)),
                     I(n1 + n2 - 2)))

Thrown ==
  [threw |-> TRUE, var1 |-> NaN, var2 |-> NaN, pooled |-> NaN, se |-> SNaN,
   t |-> SNaN, df |-> 0, p |-> AConst(NaN)]

(* lines 24-31 *)
twoSampleLocals(groupA, groupB) ==
  IF ss_mean(groupA).threw \/ ss_mean(groupB).threw
     \/ ss_variance(groupA).threw \/ ss_variance(groupB).threw
  THEN Thrown
  ELSE twoSampleP_pooled(Len(groupA), Len(groupB), ss_mean(groupA).v,
                         ss_mean(groupB).v, ss_variance(groupA).v,
                         ss_variance(groupB).v)

Returned(r) == [threw |-> r.threw, t |-> r.t, df |-> r.df, p |-> r.p]

twoSampleP(groupA, groupB) == Returned(twoSampleLocals(groupA, groupB))

POnly(r) == [threw |-> r.threw, p |-> r.p]

tTestTwoSample(groupA, groupB) == POnly(twoSampleP(groupA, groupB))

----------------------------------------------------------------------------
(* Inputs. *)

Ints(xs) == [k \in 1..Len(xs) |-> I(xs[k])]

XGrid == {RNorm(j, 4) : j \in -1..5}
Shapes == {RNorm(k, 2) : k \in 1..MaxShape2}
TGrid == {SOfInt2(k) : k \in -MaxT2..MaxT2}
DfGrid == {I(k) : k \in 1..MaxDf}
SampleVals == {I(0), I(1), I(3)}
RefA == Ints(<<1, 2, 3, 4, 5>>)
RefB == Ints(<<6, 7, 8, 9, 10>>)
Samples ==
  UNION {[1..len -> SampleVals] : len \in 0..MaxLen} \cup {RefA, RefB}

NoCall == <<"none", <<>>>>

(* The worker context before any message, and betacf before any call. *)
BcfIdle ==
  [pc |-> "idle", x |-> Zero, a |-> One, b |-> One, m |-> 0, em |-> 0,
   az |-> 0, iters |-> 0, hit |-> FALSE]

NoReq == [delta |-> 0, sigma |-> 0, n |-> 0, trials |-> 0]

WorkerIdle ==
  /\ inbox = <<>>
  /\ outbox = <<>>
  /\ sent = 0
  /\ handled = <<>>
  /\ answered = <<>>
  /\ wpc = "idle"
  /\ req = NoReq
  /\ i = 0
  /\ trialA = <<>>
  /\ trialB = <<>>
  /\ pValues = <<>>
  /\ draws = 0
  /\ drawLog = <<>>

----------------------------------------------------------------------------
(* The functions of stats.ts applied to one input. *)

StatInit ==
  /\ \/ \E x \in XGrid, sa \in Shapes, sb \in Shapes :
          call = <<"regularizedIncompleteBeta", <<x, sa, sb>>>>
     \/ \E t \in TGrid, v \in DfGrid : call = <<"studentTCdf", <<t, v>>>>
     \/ \E ga \in Samples, gb \in Samples :
          call = <<"twoSampleP", <<ga, gb>>>>
  /\ ret = <<>>
  /\ bcf = BcfIdle
  /\ WorkerIdle

ApplyIBeta ==
  /\ call[1] = "regularizedIncompleteBeta"
  /\ ret = <<>>
  /\ ret' = <<regularizedIncompleteBeta(call[2][1], call[2][2], call[2][3])>>
  /\ UNCHANGED <<call, bcfVars, workerVars>>

ApplyTCdf ==
  /\ call[1] = "studentTCdf"
  /\ ret = <<>>
  /\ ret' = <<studentTCdf(call[2][1], call[2][2])>>
  /\ UNCHANGED <<call, bcfVars, workerVars>>

(* The same call on -t. *)
ApplyTCdfNeg ==
  /\ call[1] = "studentTCdf"
  /\ Len(ret) = 1
  /\ ret' = Append(ret, studentTCdf(SNeg(call[2][1]), call[2][2]))
  /\ UNCHANGED <<call, bcfVars, workerVars>>

ApplyTwoSampleP ==
  /\ call[1] = "twoSampleP"
  /\ ret = <<>>
  /\ ret' = <<twoSampleP(call[2][1], call[2][2])>>
  /\ UNCHANGED <<call, bcfVars, workerVars>>

(* The same call with the groups exchanged. *)
ApplyTwoSamplePSwapped ==
  /\ call[1] = "twoSampleP"
  /\ Len(ret) = 1
  /\ ret' = Append(ret, twoSampleP(call[2][2], call[2][1]))
  /\ UNCHANGED <<call, bcfVars, workerVars>>

StatNext ==
  \/ ApplyIBeta
  \/ ApplyTCdf
  \/ ApplyTCdfNeg
  \/ ApplyTwoSampleP
  \/ ApplyTwoSamplePSwapped

SpecStats == StatInit /\ [][StatNext]_vars

----------------------------------------------------------------------------
(* betacf's loop.  The approximants are continued-fraction values that the *)
(* model does not compute: az holds the number of the iteration that       *)
(* assigned it (0: the initial az = 1).  The outcome of the convergence    *)
(* test |az - aold| < EPS * |az| is known where the arithmetic decides it  *)
(* (x = 0 makes both d terms 0, so az stays 1 and the first test holds; a  *)
(* NaN argument makes az NaN and every test false) and is otherwise either *)
(* outcome, at every iteration.                                            *)

MAX_ITER == 200

BcfXs == {Zero, RNorm(1, 4), Half, NaN}

betacfTestOutcomes(x, sa, sb) ==
  IF IsNaN(x) \/ IsNaN(sa) \/ IsNaN(sb) THEN {FALSE}
  ELSE IF x = Zero THEN {TRUE}
  ELSE BOOLEAN

(* Variant: m < MAX_ITER. *)
betacfLoopCond_lt(m) == m < MAX_ITER

betacfLoopCond(m) == m <= MAX_ITER

BcfInit ==
  /\ \E x \in BcfXs, sa \in Shapes, sb \in Shapes :
       bcf = [BcfIdle EXCEPT !.pc = "called", !.x = x, !.a = sa, !.b = sb]
  /\ call = NoCall
  /\ ret = <<>>
  /\ WorkerIdle

(* lines 86-94: the locals, and the for statement's initialisation *)
BetacfEnter ==
  /\ bcf.pc = "called"
  /\ bcf' = [bcf EXCEPT !.pc = "loop", !.m = 1, !.em = 1, !.az = 0]
  /\ UNCHANGED <<statVars, workerVars>>

(* one iteration whose test holds: return az *)
BetacfIterReturn ==
  /\ bcf.pc = "loop"
  /\ betacfLoopCond(bcf.m)
  /\ TRUE \in betacfTestOutcomes(bcf.x, bcf.a, bcf.b)
  /\ bcf' = [bcf EXCEPT !.pc = "returned", !.az = bcf.m,
                        !.iters = bcf.iters + 1, !.hit = TRUE]
  /\ UNCHANGED <<statVars, workerVars>>

(* one iteration whose test fails: m++, em++ *)
BetacfIterContinue ==
  /\ bcf.pc = "loop"
  /\ betacfLoopCond(bcf.m)
  /\ FALSE \in betacfTestOutcomes(bcf.x, bcf.a, bcf.b)
  /\ bcf' = [bcf EXCEPT !.az = bcf.m, !.iters = bcf.iters + 1,
                        !.m = bcf.m + 1, !.em = bcf.em + 1]
  /\ UNCHANGED <<statVars, workerVars>>

(* the loop condition fails: return az (the fallback) *)
BetacfFallback ==
  /\ bcf.pc = "loop"
  /\ ~betacfLoopCond(bcf.m)
  /\ bcf' = [bcf EXCEPT !.pc = "returned"]
  /\ UNCHANGED <<statVars, workerVars>>

BcfNext ==
  \/ BetacfEnter
  \/ BetacfIterReturn
  \/ BetacfIterContinue
  \/ BetacfFallback

SpecBetacf == BcfInit /\ [][BcfNext]_vars

----------------------------------------------------------------------------
(* The worker context: ctx.onmessage, one step per statement.  A handler   *)
(* runs to completion before the next message is dispatched.               *)

Deltas == {1}
Sigmas == {1}
Ns == {0, 1, 2}
Requests ==
  [delta : Deltas, sigma : Sigmas, n : Ns, trials : -1..MaxTrials]

(* Math.random(): the draws the model takes, named by their values. *)
U1 == {"exp(-1/2)"}
U2 == {"0", "1/2"}

(* Math.sqrt(-2 * Math.log(u)) *)
SqrtNeg2Log(u) == CASE u = "exp(-1/2)" -> One

(* Math.cos(2 * Math.PI * u) *)
Cos2Pi(u) == IF u = "0" THEN One ELSE RNeg(One)

randomNormal(mu, sigma, u1, u2) ==
  RAdd(I(mu), RMul(RMul(I(sigma), SqrtNeg2Log(u1)), Cos2Pi(u2)))

(* Array.from({length: n}, f) calls f ToLength(n) times. *)
ToLength(n) == IF n < 0 THEN 0 ELSE n

(* Variant: i <= trials. *)
loopCond_le(iv, trials) == iv <= trials

loopCond(iv, trials) == iv < trials

(* Variant: unshift in place of push. *)
pushP_front(pv, p) == <<p>> \o pv

pushP(pv, p) == Append(pv, p)

Init ==
  /\ WorkerIdle
  /\ call = NoCall
  /\ ret = <<>>
  /\ bcf = BcfIdle

(* the handler is left (return or throw): its locals are gone *)
HandlerLocalsGone ==
  /\ req' = NoReq
  /\ i' = 0
  /\ trialA' = <<>>
  /\ trialB' = <<>>
  /\ pValues' = <<>>
  /\ draws' = 0
  /\ drawLog' = <<>>

(* the host posts a request to the context *)
HostPost ==
  /\ sent < MaxMsgs
  /\ \E msg \in Requests : inbox' = Append(inbox, msg)
  /\ sent' = sent + 1
  /\ UNCHANGED <<statVars, bcfVars, outbox, handled, answered, wpc, req, i,
                 trialA, trialB, pValues, draws, drawLog>>

(* lines 9-12: the handler starts on the next message *)
OnMessage ==
  /\ wpc = "idle"
  /\ inbox # <<>>
  /\ req' = Head(inbox)
  /\ inbox' = Tail(inbox)
  /\ handled' = Append(handled, Head(inbox))
  /\ pValues' = <<>>
  /\ i' = 0
  /\ trialA' = <<>>
  /\ trialB' = <<>>
  /\ draws' = 0
  /\ drawLog' = <<>>
  /\ wpc' = "for"
  /\ UNCHANGED <<statVars, bcfVars, outbox, sent, answered>>

(* line 13: i < trials holds, the body starts *)
LoopEnter ==
  /\ wpc = "for"
  /\ loopCond(i, req.trials)
  /\ trialA' = <<>>
  /\ trialB' = <<>>
  /\ wpc' = "a"
  /\ UNCHANGED <<statVars, bcfVars, inbox, outbox, sent, handled, answered,
                 req, i, pValues, draws, drawLog>>

(* line 13: i < trials fails *)
LoopExit ==
  /\ wpc = "for"
  /\ ~loopCond(i, req.trials)
  /\ wpc' = "post"
  /\ UNCHANGED <<statVars, bcfVars, inbox, outbox, sent, handled, answered,
                 req, i, trialA, trialB, pValues, draws, drawLog>>

(* line 14: one element of a, randomNormal(0, sigma) *)
FillA ==
  /\ wpc = "a"
  /\ Len(trialA) < ToLength(req.n)
  /\ \E u1 \in U1, u2 \in U2 :
       trialA' = Append(trialA, randomNormal(0, req.sigma, u1, u2))
  /\ draws' = draws + 2
  /\ drawLog' = Append(drawLog, <<i, 0>>)
  /\ UNCHANGED <<statVars, bcfVars, inbox, outbox, sent, handled, answered,
                 wpc, req, i, trialB, pValues>>

FillADone ==
  /\ wpc = "a"
  /\ ~(Len(trialA) < ToLength(req.n))
  /\ wpc' = "b"
  /\ UNCHANGED <<statVars, bcfVars, inbox, outbox, sent, handled, answered,
                 req, i, trialA, trialB, pValues, draws, drawLog>>

(* line 15: one element of b, randomNormal(delta, sigma) *)
FillB ==
  /\ wpc = "b"
  /\ Len(trialB) < ToLength(req.n)
  /\ \E u1 \in U1, u2 \in U2 :
       trialB' = Append(trialB, randomNormal(req.delta, req.sigma, u1, u2))
  /\ draws' = draws + 2
  /\ drawLog' = Append(drawLog, <<i, 1>>)
  /\ UNCHANGED <<statVars, bcfVars, inbox, outbox, sent, handled, answered,
                 wpc, req, i, trialA, pValues>>

FillBDone ==
  /\ wpc = "b"
  /\ ~(Len(trialB) < ToLength(req.n))
  /\ wpc' = "ttest"
  /\ UNCHANGED <<statVars, bcfVars, inbox, outbox, sent, handled, answered,
                 req, i, trialA, trialB, pValues, draws, drawLog>>

(* line 16 and the i++ of line 13; a and b, local to the body, are gone *)
TTestPush ==
  /\ wpc = "ttest"
  /\ ~tTestTwoSample(trialA, trialB).threw
  /\ pValues' = pushP(pValues, tTestTwoSample(trialA, trialB).p)
  /\ i' = i + 1
  /\ trialA' = <<>>
  /\ trialB' = <<>>
  /\ wpc' = "for"
  /\ UNCHANGED <<statVars, bcfVars, inbox, outbox, sent, handled, answered,
                 req, draws, drawLog>>

(* line 16: tTestTwoSample throws; nothing catches it, the handler ends *)
TTestThrow ==
  /\ wpc = "ttest"
  /\ tTestTwoSample(trialA, trialB).threw
  /\ wpc' = "idle"
  /\ HandlerLocalsGone
  /\ UNCHANGED <<statVars, bcfVars, inbox, outbox, sent, handled, answered>>

(* line 19 *)
PostMessage ==
  /\ wpc = "post"
  /\ outbox' = Append(outbox, [pValues |-> pValues])
  /\ answered' = Append(answered, Len(handled))
  /\ wpc' = "idle"
  /\ HandlerLocalsGone
  /\ UNCHANGED <<statVars, bcfVars, inbox, sent, handled>>

Next ==
  \/ HostPost
  \/ OnMessage
  \/ LoopEnter
  \/ LoopExit
  \/ FillA
  \/ FillADone
  \/ FillB
  \/ FillBDone
  \/ TTestPush
  \/ TTestThrow
  \/ PostMessage

Spec == Init /\ [][Next]_vars

----------------------------------------------------------------------------
(* Claims about the worker context, checked under Spec. *)

ExpectedLength(trials) == IF trials >= 0 THEN trials ELSE 0

(* C1: for every request with n >= 1, the pValues sequence of the response *)
(* has length exactly trials when trials >= 0 and is empty when            *)
(* trials <= 0.                                                            *)
C1_LengthIsTrials ==
  \A k \in 1..Len(outbox) :
    handled[answered[k]].n >= 1
      => Len(outbox[k].pValues) = ExpectedLength(handled[answered[k]].trials)

C1_Witness ==
  \E k \in 1..Len(outbox) :
    /\ handled[answered[k]].n >= 1
    /\ handled[answered[k]].trials = MaxTrials
    /\ Len(outbox[k].pValues) = MaxTrials

(* C2: every inbound message triggers exactly one outbound message: when   *)
(* no handler runs there are as many responses as requests handled, a      *)
(* running handler has posted nothing yet, and the k-th response is the    *)
(* response to the k-th request.                                           *)
C2_OneResponsePerRequest ==
  /\ wpc = "idle" => Len(outbox) = Len(handled)
  /\ wpc # "idle" => Len(outbox) = Len(handled) - 1
  /\ \A k \in 1..Len(outbox) : answered[k] = k

(* C9: within one request the trials run one after the other: trial i      *)
(* draws its n values of group A, then its n values of group B, then       *)
(* appends its p-value at index i; every randomNormal call takes two       *)
(* uniform draws, so a trial takes 4*n; an appended p-value is not changed *)
(* afterwards.                                                             *)
C9_Order ==
  wpc # "idle" =>
    /\ Len(pValues) = i
    /\ draws = 2 * Len(drawLog)
    /\ wpc \in {"for", "post"} =>
         /\ trialA = <<>>
         /\ trialB = <<>>
         /\ draws = 4 * ToLength(req.n) * i
    /\ wpc = "a" =>
         /\ trialB = <<>>
         /\ Len(trialA) <= ToLength(req.n)
         /\ draws = 4 * ToLength(req.n) * i + 2 * Len(trialA)
    /\ wpc = "b" =>
         /\ Len(trialA) = ToLength(req.n)
         /\ Len(trialB) <= ToLength(req.n)
         /\ draws = 4 * ToLength(req.n) * i + 2 * Len(trialA)
                    + 2 * Len(trialB)
    /\ wpc = "ttest" =>
         /\ Len(trialA) = ToLength(req.n)
         /\ Len(trialB) = ToLength(req.n)
         /\ draws = 4 * ToLength(req.n) * (i + 1)
    /\ \A k \in 1..Len(drawLog) :
         drawLog[k] =
           <<(k - 1) \div (2 * ToLength(req.n)),
             IF (k - 1) % (2 * ToLength(req.n)) < ToLength(req.n)
             THEN 0 ELSE 1>>

C9_Append ==
  (wpc # "idle" /\ wpc' # "idle") =>
    /\ Len(pValues') >= Len(pValues)
    /\ \A k \in 1..Len(pValues) : pValues'[k] = pValues[k]
    /\ (wpc = "ttest" /\ wpc' = "for") =>
         /\ Len(pValues') = i + 1
         /\ pValues'[i + 1] = tTestTwoSample(trialA, trialB).p

(* C9: the order of the handler's steps holds in every state, and every    *)
(* step leaves the p-values already appended in place.                     *)
C9_SequentialTrials == [](C9_Order) /\ [][C9_Append]_vars

C9_Witness ==
  /\ wpc = "post"
  /\ req.n = 2
  /\ i = 2
  /\ draws = 16
  /\ Len(pValues) = 2
  /\ pValues[1] # pValues[2]

----------------------------------------------------------------------------
(* Claims about the functions of stats.ts, checked under SpecStats. *)

IBetaReturned == call[1] = "regularizedIncompleteBeta" /\ Len(ret) = 1

(* C3: regularizedIncompleteBeta returns exactly 0 when x <= 0 and exactly *)
(* 1 when x >= 1, and in both cases before logGamma or betacf is           *)
(* evaluated.                                                              *)
C3_BoundaryExact ==
  IBetaReturned =>
    /\ RLe(call[2][1], Zero) =>
         (ret[1].v = AConst(Zero) /\ ret[1].calls = <<>>)
    /\ RGe(call[2][1], One) =>
         (ret[1].v = AConst(One) /\ ret[1].calls = <<>>)

C3_Witness ==
  /\ IBetaReturned
  /\ call[2][1] = Zero
  /\ ret[1].v = AConst(Zero)
  /\ ret[1].calls = <<>>

TwoSampleReturned == call[1] = "twoSampleP" /\ Len(ret) >= 1

IsZeroT(t) == t = [sg |-> 0, sq |-> Zero]

(* C5 as stated: for every sample S of length n >= 2, twoSampleP(S, S)     *)
(* yields t == 0 and p == 1.                                               *)
C5_IdenticalSamples ==
  (TwoSampleReturned /\ call[2][1] = call[2][2] /\ Len(call[2][1]) >= 2)
    => (IsZeroT(ret[1].t) /\ ret[1].p = AConst(One))

(* C5 as amended: for every sample S of length n >= 2 whose variance is    *)
(* not zero (S is not constant), twoSampleP(S, S) yields t == 0 and        *)
(* p == 1; for a constant S the standard error is 0 and t and p are NaN.   *)
C5_IdenticalNonConstant ==
  (TwoSampleReturned /\ call[2][1] = call[2][2] /\ Len(call[2][1]) >= 2)
    => IF RLt(Zero, ss_variance(call[2][1]).v)
       THEN IsZeroT(ret[1].t) /\ ret[1].p = AConst(One)
       ELSE SIsNaN(ret[1].t) /\ ret[1].p = AConst(NaN)

C5_Witness ==
  /\ TwoSampleReturned
  /\ call[2][1] = call[2][2]
  /\ Len(call[2][1]) >= 2
  /\ RLt(Zero, ss_variance(call[2][1]).v)
  /\ IsZeroT(ret[1].t)
  /\ ret[1].p = AConst(One)

(* C6: studentTCdf(t, v) + studentTCdf(-t, v) == 1 for all real t and all  *)
(* v > 0; at t = 0 each term is 0.5.                                       *)
C6_CdfSymmetry ==
  (call[1] = "studentTCdf" /\ Len(ret) = 2) =>
    /\ AAdd(ret[1], ret[2]) = AConst(One)
    /\ IsZeroT(call[2][1]) => (ret[1] = AConst(Half) /\ ret[2] = AConst(Half))

C6_Witness ==
  /\ call[1] = "studentTCdf"
  /\ Len(ret) = 2
  /\ call[2][1].sg < 0
  /\ ret[1].s # NoSym
  /\ ret[2].s = ret[1].s
  /\ AAdd(ret[1], ret[2]) = AConst(One)

IBetaSymm(x, sa, sb) == RLt(x, RDiv(RAdd(sa, One), RAdd(RAdd(sa, sb), Two)))

(* C7: for 0 < x < 1, when x < (a+1)/(a+b+2) betacf is evaluated on        *)
(* (x, a, b) and the result is bt*cf/a; otherwise betacf is evaluated on   *)
(* 1-x with a and b exchanged (first shape parameter b, second a) and the  *)
(* result is 1 - bt*cf/b.                                                  *)
C7_SymmetryBranch ==
  (IBetaReturned /\ RLt(Zero, call[2][1]) /\ RLt(call[2][1], One)) =>
    LET x == call[2][1]
        sa == call[2][2]
        sb == call[2][3]
        last == ret[1].calls[Len(ret[1].calls)]
    IN  IF IBetaSymm(x, sa, sb)
        THEN /\ last = <<"betacf", <<x, sa, sb>>>>
             /\ ret[1].v = [c |-> Zero, m |-> RDiv(One, sa),
                            s |-> <<x, sa, sb, x, sa, sb>>]
        ELSE /\ last = <<"betacf", <<RSub(One, x), sb, sa>>>>
             /\ ret[1].v = [c |-> One, m |-> RNeg(RDiv(One, sb)),
                            s |-> <<x, sa, sb, RSub(One, x), sb, sa>>]

UnbiasedVariance(xs) ==
  RDiv(SumSqDev(xs, ss_mean(xs).v), I(Len(xs) - 1))

(* C8: twoSampleP computes each group's variance as the unbiased sample    *)
(* variance (squared deviations from the group mean over n-1) and from     *)
(* them the pooled variance ((n1-1)*var1 + (n2-1)*var2)/df, df = n1+n2-2;  *)
(* for A=[1,2,3,4,5], B=[6,7,8,9,10]: var1 = var2 = 2.5, pooled = 2.5,     *)
(* se = 1, t = -5, df = 8.                                                 *)
C8_UnbiasedPooled ==
  (TwoSampleReturned /\ Len(call[2][1]) >= 2 /\ Len(call[2][2]) >= 2) =>
    LET ga == call[2][1]
        gb == call[2][2]
        loc == twoSampleLocals(ga, gb)
    IN  /\ loc.var1 = UnbiasedVariance(ga)
        /\ loc.var2 = UnbiasedVariance(gb)
        /\ loc.df = Len(ga) + Len(gb) - 2
        /\ loc.pooled =
             RDiv(RAdd(RMul(I(Len(ga) - 1), loc.var1),
                       RMul(I(Len(gb) - 1), loc.var2)), I(loc.df))
        /\ (ga = RefA /\ gb = RefB) =>
             /\ loc.var1 = RNorm(5, 2)
             /\ loc.var2 = RNorm(5, 2)
             /\ loc.pooled = RNorm(5, 2)
             /\ loc.se = [sg |-> 1, sq |-> One]
             /\ ret[1].t = [sg |-> -1, sq |-> I(25)]
             /\ ret[1].df = 8

FiniteNonZeroT(t) == IsFinite(t.sq) /\ t.sg # 0

(* C10: for all samples A, B with a finite non-zero t, twoSampleP(B, A)    *)
(* returns the negated t, the same df and the same p as twoSampleP(A, B),  *)
(* and p equals 2*(1 - (1 - 0.5*ib)) with                                  *)
(* ib = regularizedIncompleteBeta(df/(df+t*t), df/2, 0.5) in both sign     *)
(* branches.                                                               *)
C10_OrderIndependent ==
  (call[1] = "twoSampleP" /\ Len(ret) = 2 /\ ~ret[1].threw
   /\ FiniteNonZeroT(ret[1].t)) =>
    /\ ret[2].t = SNeg(ret[1].t)
    /\ ret[2].df = ret[1].df
    /\ ret[2].p = ret[1].p
    /\ ret[1].p =
         AScale(Two, AOneMinus(AOneMinus(AScale(Half,
           regularizedIncompleteBeta(
             RDiv(I(ret[1].df), RAdd(I(ret[1].df), SSquare(ret[1].t))),
             RDiv(I(ret[1].df), Two), Half).v))))

C10_Witness ==
  /\ call[1] = "twoSampleP"
  /\ Len(ret) = 2
  /\ ~ret[1].threw
  /\ FiniteNonZeroT(ret[1].t)
  /\ ret[1].t.sg < 0
  /\ ret[2].t.sg > 0
  /\ ret[1].p.s # NoSym
  /\ ret[2].p = ret[1].p

----------------------------------------------------------------------------
(* Claims about betacf's loop, checked under SpecBetacf. *)

(* C4: betacf returns after at most 200 iterations: at the first iteration *)
(* whose convergence test holds, or, if none does, after the 200th with    *)
(* the last approximant; it raises no error.                               *)
C4_BetacfTerminates ==
  /\ bcf.iters <= MAX_ITER
  /\ bcf.pc = "loop" =>
       /\ bcf.m = bcf.iters + 1
       /\ bcf.az = bcf.iters
       /\ ~bcf.hit
       /\ ENABLED BcfNext
  /\ bcf.pc = "returned" =>
       /\ bcf.az = bcf.iters
       /\ bcf.hit \/ bcf.iters = MAX_ITER
       /\ bcf.hit => bcf.iters >= 1

C4_Witness ==
  /\ bcf.pc = "returned"
  /\ ~bcf.hit
  /\ bcf.iters = MAX_ITER
  /\ bcf.az = MAX_ITER

====
